---------------------------- MODULE Spec2Model ----------------------------
(***************************************************************************)
(* Model of backend/progress.go: the download-queue / progress store.      *)
(*                                                                         *)
(* Every operation that mutates the queue runs from Lock() to the deferred *)
(* Unlock() of downloadQueueLock, and every reader of the queue holds its  *)
(* RLock, so such an operation is one action, enabled only while no reader *)
(* holds the read lock.  The operations that are several critical sections *)
(* (ResetSessionIfComplete, GetDownloadQueue, ClearAllDownloads,           *)
(* SetDownloading, GetDownloadProgress) are run by threads, one action per *)
(* critical section or atomic instruction.                                 *)
(*                                                                         *)
(* Three specifications share the variables:                               *)
(*   Spec        the queue store: any callers of the queue operations, a   *)
(*               poller in GetDownloadQueue / ResetSessionIfComplete and a *)
(*               caller in ClearAllDownloads, up to MaxCalls calls;        *)
(*   SpecActive  two workers in SetDownloading, a poller in                *)
(*               GetDownloadProgress;                                      *)
(*   SpecStream  one ProgressWriter fed a 1 MiB stream in 300 KiB writes;  *)
(*   SpecScenario  one caller taking a record from AddToQueue to           *)
(*               CompleteDownloadItem on a store filled by earlier calls;  *)
(*   SpecWriter  one ProgressWriter over a sink that accepts a write       *)
(*               whole, in part or not at all;                             *)
(*   SpecPaired  two workers that pair SetDownloading(true) with           *)
(*               SetDownloading(false), and the poller;                    *)
(*   SpecLocks   AddToQueue, StartDownloadItem, CompleteDownloadItem,      *)
(*               GetDownloadQueue and ClearAllDownloads one lock call at   *)
(*               a time (mutex is used here only), and SpecLocksFair, the  *)
(*               same under a fair scheduler.                              *)
(*                                                                         *)
(* In Spec, sizes and speeds are small naturals standing for the float64   *)
(* MB values the callers pass, and `now` is the clock in epoch seconds.    *)
(* hist, lastCall and calls record what was called; no operation reads     *)
(* them.                                                                   *)
(***************************************************************************)
EXTENDS Integers, Sequences, FiniteSets, TLC

VARIABLES
    downloadQueue,      \* []DownloadItem
    totalDownloaded,    \* session-cumulative MB
    sessionStartTime,   \* epoch seconds, 0 = no open session
    currentItemID,      \* the current-item cursor
    currentProgress,    \* shared aggregate
    currentSpeed,       \* shared aggregate
    activeDownloads,    \* int64 counter
    rlockHolders,       \* threads holding downloadQueueLock.RLock
    now,                \* the clock
    pc,                 \* each thread's position
    local,              \* each thread's local variables
    pw,                 \* the ProgressWriter under study
    stream,             \* the chunks still to be written to pw
    mutex,              \* each sync.RWMutex: the writer in Lock, the readers
    hist,               \* bookkeeping: sums over the calls made
    lastCall,           \* bookkeeping: the call made last
    calls               \* bookkeeping: how many calls were made

vars == <<downloadQueue, totalDownloaded, sessionStartTime, currentItemID,
          currentProgress, currentSpeed, activeDownloads, rlockHolders, now,
          pc, local, pw, stream, mutex, hist, lastCall, calls>>

storeVars == <<downloadQueue, totalDownloaded, sessionStartTime,
               currentItemID, currentProgress, currentSpeed>>

---------------------------------------------------------------------------
(* Bounds of the model *)

MaxCalls == 5

---------------------------------------------------------------------------
(* Statuses and records *)

StatusQueued == "queued"
StatusDownloading == "downloading"
StatusCompleted == "completed"
StatusFailed == "failed"
StatusSkipped == "skipped"

Terminal == {StatusCompleted, StatusFailed, StatusSkipped}

Ids == {"a", "b"}
Sizes == {1}
Paths == {"/out/a.mp3"}
ErrorMsgs == {"boom"}
\* the UI poller, which reads snapshots, and a caller that clears everything
Poller == "poller"
Clearer == "clearer"
Threads == {Poller, Clearer}

\* The literal of AddToQueue: the fields it does not name are Go zero values.
DownloadItem(id) ==
    [ID |-> id, TrackName |-> "Song", ArtistName |-> "Artist",
     AlbumName |-> "Album", SpotifyID |-> "sid", Status |-> StatusQueued,
     Progress |-> 0, TotalSize |-> 0, Speed |-> 0, StartTime |-> 0,
     EndTime |-> 0, ErrorMessage |-> "", FilePath |-> ""]

\* for i := range q { if q[i].ID == id { ...; break } }: the first match, 0 if none
FindItem(q, id) ==
    LET S == {i \in DOMAIN q : q[i].ID = id}
    IN  IF S = {} THEN 0 ELSE CHOOSE i \in S : \A j \in S : i <= j

IsPending(item) == item.Status \in {StatusQueued, StatusDownloading}

\* a writer that does not wait for the readers of downloadQueueLock
QueueLockIgnored == TRUE

\* downloadQueueLock.Lock() succeeds only while no reader holds RLock
QueueLockFree == rlockHolders = {}


---------------------------------------------------------------------------
(* Bookkeeping *)

\* a call: its operation, its id argument, whether the id matched a record,
\* and the queue length the call found
Call(op, id, found, len) == [op |-> op, id |-> id, found |-> found, len |-> len]

NoHist == [completeAll |-> 0, completeFound |-> 0]

EmptyLocal ==
    [op |-> "", hasActiveOrQueued |-> FALSE, downloading |-> FALSE,
     speed |-> 0, total |-> 0, sessionStart |-> 0, queued |-> 0,
     completed |-> 0, failed |-> 0, skipped |-> 0, Queue |-> <<>>]

\* the zero value of every sync.RWMutex of the var block: unlocked
FreeMutex == [writer |-> "", readers |-> {}]

LockNames == {"downloadQueueLock", "sessionStartLock", "currentItemLock",
              "totalDownloadedLock", "speedLock", "currentProgressLock"}

NoMutex == [l \in LockNames |-> FreeMutex]

NoWriter ==
    [total |-> 0, lastPrinted |-> 0, startTime |-> 0, lastTime |-> 0,
     lastBytes |-> 0, itemID |-> ""]

---------------------------------------------------------------------------
(* The queue after each operation *)

\* an AddToQueue that stamps the session on every call
OpenSessionAlways(start, t) == t

\* AddToQueue: if sessionStartTime == 0 { sessionStartTime = time.Now().Unix() }
OpenSession(start, t) == IF start = 0 THEN t ELSE start

StartedQueue(q, id, t) ==
    LET i == FindItem(q, id)
    IN  IF i = 0 THEN q
        ELSE [q EXCEPT ![i].Status = StatusDownloading,
                       ![i].StartTime = t,
                       ![i].Progress = 0]

UpdatedQueue(q, id, progress, speed) ==
    LET i == FindItem(q, id)
    IN  IF i = 0 THEN q
        ELSE [q EXCEPT ![i].Progress = progress, ![i].Speed = speed]

\* a completion that leaves TotalSize as it was
CompletedQueueKeepingSize(q, id, filePath, finalSize, t) ==
    LET i == FindItem(q, id)
    IN  IF i = 0 THEN q
        ELSE [q EXCEPT ![i].Status = StatusCompleted,
                       ![i].EndTime = t,
                       ![i].FilePath = filePath,
                       ![i].Progress = finalSize]

CompletedQueue(q, id, filePath, finalSize, t) ==
    LET i == FindItem(q, id)
    IN  IF i = 0 THEN q
        ELSE [q EXCEPT ![i].Status = StatusCompleted,
                       ![i].EndTime = t,
                       ![i].FilePath = filePath,
                       ![i].Progress = finalSize,
                       ![i].TotalSize = finalSize]

\* a CompleteDownloadItem that adds finalSize after the loop, matched or not
CompletedTotalUnmatched(q, id, finalSize, total) == total + finalSize

\* totalDownloaded += finalSize sits inside the loop's match, before its break
CompletedTotal(q, id, finalSize, total) ==
    IF FindItem(q, id) = 0 THEN total ELSE total + finalSize

FailedQueue(q, id, errorMsg, t) ==
    LET i == FindItem(q, id)
    IN  IF i = 0 THEN q
        ELSE [q EXCEPT ![i].Status = StatusFailed,
                       ![i].EndTime = t,
                       ![i].ErrorMessage = errorMsg]

SkippedQueue(q, id, filePath, t) ==
    LET i == FindItem(q, id)
    IN  IF i = 0 THEN q
        ELSE [q EXCEPT ![i].Status = StatusSkipped,
                       ![i].EndTime = t,
                       ![i].FilePath = filePath]

\* StartDownloadItem stores the cursor after the loop, matched or not
CursorAfterStart(q, id, cursor) == id

\* a cancel that also takes the Downloading records
CancelPendingItem(item, t) ==
    IF IsPending(item)
    THEN [item EXCEPT !.Status = StatusSkipped,
                      !.EndTime = t,
                      !.ErrorMessage = "Cancelled"]
    ELSE item

CancelItem(item, t) ==
    IF item.Status = StatusQueued
    THEN [item EXCEPT !.Status = StatusSkipped,
                      !.EndTime = t,
                      !.ErrorMessage = "Cancelled"]
    ELSE item

CancelledQueue(q, t) == [i \in DOMAIN q |-> CancelItem(q[i], t)]

\* a clear that keeps only the Queued records
KeepOnlyQueued(item) == item.Status = StatusQueued

KeepOnClear(item) == IsPending(item)

RECURSIVE ClearLoop(_, _, _)
ClearLoop(q, i, newQueue) ==
    IF i > Len(q) THEN newQueue
    ELSE ClearLoop(q, i + 1,
                   IF KeepOnClear(q[i]) THEN Append(newQueue, q[i])
                   ELSE newQueue)

\* a clear that drops every record, as ClearAllDownloads does
ClearedToEmpty(q) == <<>>

ClearedQueue(q) == ClearLoop(q, 1, <<>>)

\* the scan of ResetSessionIfComplete
HasActiveOrQueued(q) == \E i \in DOMAIN q : IsPending(q[i])

\* the switch of GetDownloadQueue's counting loop, for one status
RECURSIVE CountLoop(_, _, _, _)
CountLoop(q, i, status, n) ==
    IF i > Len(q) THEN n
    ELSE CountLoop(q, i + 1, status,
                   IF q[i].Status = status THEN n + 1 ELSE n)

CountStatus(q, status) == CountLoop(q, 1, status, 0)

---------------------------------------------------------------------------
(* Operations that hold downloadQueueLock exclusively from entry to return *)

notStore == <<activeDownloads, rlockHolders, now, pc, local, pw, stream,
              mutex>>

AddToQueue(id) ==
    /\ QueueLockFree
    /\ downloadQueue' = Append(downloadQueue, DownloadItem(id))
    /\ sessionStartTime' = OpenSession(sessionStartTime, now)
    /\ UNCHANGED <<totalDownloaded, currentItemID, currentProgress,
                   currentSpeed>>
    /\ UNCHANGED notStore

StartDownloadItem(id) ==
    /\ QueueLockFree
    /\ downloadQueue' = StartedQueue(downloadQueue, id, now)
    /\ currentItemID' = CursorAfterStart(downloadQueue, id, currentItemID)
    /\ UNCHANGED <<totalDownloaded, sessionStartTime, currentProgress,
                   currentSpeed>>
    /\ UNCHANGED notStore

UpdateItemProgress(id, progress, speed) ==
    /\ QueueLockFree
    /\ downloadQueue' = UpdatedQueue(downloadQueue, id, progress, speed)
    /\ UNCHANGED <<totalDownloaded, sessionStartTime, currentItemID,
                   currentProgress, currentSpeed>>
    /\ UNCHANGED notStore

CompleteDownloadItem(id, filePath, finalSize) ==
    /\ QueueLockFree
    /\ downloadQueue' = CompletedQueue(downloadQueue, id, filePath, finalSize, now)
    /\ totalDownloaded' = CompletedTotal(downloadQueue, id, finalSize, totalDownloaded)
    /\ UNCHANGED <<sessionStartTime, currentItemID, currentProgress, currentSpeed>>
    /\ UNCHANGED notStore

FailDownloadItem(id, errorMsg) ==
    /\ QueueLockFree
    /\ downloadQueue' = FailedQueue(downloadQueue, id, errorMsg, now)
    /\ UNCHANGED <<totalDownloaded, sessionStartTime, currentItemID,
                   currentProgress, currentSpeed>>
    /\ UNCHANGED notStore

SkipDownloadItem(id, filePath) ==
    /\ QueueLockFree
    /\ downloadQueue' = SkippedQueue(downloadQueue, id, filePath, now)
    /\ UNCHANGED <<totalDownloaded, sessionStartTime, currentItemID,
                   currentProgress, currentSpeed>>
    /\ UNCHANGED notStore

ClearDownloadQueue ==
    /\ QueueLockFree
    /\ downloadQueue' = ClearedQueue(downloadQueue)
    /\ UNCHANGED <<totalDownloaded, sessionStartTime, currentItemID,
                   currentProgress, currentSpeed>>
    /\ UNCHANGED notStore

CancelAllQueuedItems ==
    /\ QueueLockFree
    /\ downloadQueue' = CancelledQueue(downloadQueue, now)
    /\ UNCHANGED <<totalDownloaded, sessionStartTime, currentItemID,
                   currentProgress, currentSpeed>>
    /\ UNCHANGED notStore

\* time passes between two readings of time.Now().Unix()
Tick ==
    /\ now' = now + 1
    /\ UNCHANGED <<storeVars, activeDownloads, rlockHolders, pc, local, pw,
                   stream, mutex>>

---------------------------------------------------------------------------
(* The setters of the shared aggregates, each one critical section *)

SetDownloadSpeed(mbps) ==
    /\ currentSpeed' = mbps
    /\ UNCHANGED <<downloadQueue, totalDownloaded, sessionStartTime,
                   currentItemID, currentProgress>>
    /\ UNCHANGED notStore

SetDownloadProgress(mbDownloaded) ==
    /\ currentProgress' = mbDownloaded
    /\ UNCHANGED <<downloadQueue, totalDownloaded, sessionStartTime,
                   currentItemID, currentSpeed>>
    /\ UNCHANGED notStore

---------------------------------------------------------------------------
(* ResetSessionIfComplete, alone or as the first statement of               *)
(* GetDownloadQueue: the scan under RLock, then two separate critical       *)
(* sections.                                                                *)

threadFrame == <<activeDownloads, now, pw, stream, mutex>>

\* where a thread goes when ResetSessionIfComplete returns
AfterReset(op) == IF op = "GetDownloadQueue" THEN "gq_rlock" ELSE "idle"

LocalAfterReset(l) == IF l.op = "GetDownloadQueue" THEN l ELSE EmptyLocal

ResetScan(t, op) ==
    /\ pc[t] = "idle"
    /\ LET has == HasActiveOrQueued(downloadQueue)
           l == [EmptyLocal EXCEPT !.op = op, !.hasActiveOrQueued = has]
       IN  /\ pc' = [pc EXCEPT ![t] = IF has THEN AfterReset(op) ELSE "rs_session"]
           /\ local' = [local EXCEPT ![t] = IF has THEN LocalAfterReset(l) ELSE l]
    /\ UNCHANGED <<storeVars, rlockHolders>>
    /\ UNCHANGED threadFrame

ResetSessionStart(t) ==
    /\ pc[t] = "rs_session"
    /\ sessionStartTime' = 0
    /\ pc' = [pc EXCEPT ![t] = "rs_total"]
    /\ UNCHANGED <<downloadQueue, totalDownloaded, currentItemID,
                   currentProgress, currentSpeed, rlockHolders, local>>
    /\ UNCHANGED threadFrame

ResetTotal(t) ==
    /\ pc[t] = "rs_total"
    /\ totalDownloaded' = 0
    /\ pc' = [pc EXCEPT ![t] = AfterReset(local[t].op)]
    /\ local' = [local EXCEPT ![t] = LocalAfterReset(local[t])]
    /\ UNCHANGED <<downloadQueue, sessionStartTime, currentItemID,
                   currentProgress, currentSpeed, rlockHolders>>
    /\ UNCHANGED threadFrame

---------------------------------------------------------------------------
(* GetDownloadQueue after its reset: everything below runs under            *)
(* downloadQueueLock.RLock, released when the function returns.             *)

GqStep(t, from, to, l) ==
    /\ pc[t] = from
    /\ pc' = [pc EXCEPT ![t] = to]
    /\ local' = [local EXCEPT ![t] = l]
    /\ UNCHANGED <<storeVars>>
    /\ UNCHANGED threadFrame

GqRLock(t) ==
    /\ GqStep(t, "gq_rlock", "gq_speed",
              [local[t] EXCEPT !.downloading = activeDownloads > 0])
    /\ rlockHolders' = rlockHolders \cup {t}

GqSpeed(t) ==
    /\ GqStep(t, "gq_speed", "gq_total", [local[t] EXCEPT !.speed = currentSpeed])
    /\ UNCHANGED rlockHolders

GqTotal(t) ==
    /\ GqStep(t, "gq_total", "gq_session",
              [local[t] EXCEPT !.total = totalDownloaded])
    /\ UNCHANGED rlockHolders

GqSession(t) ==
    /\ GqStep(t, "gq_session", "gq_count",
              [local[t] EXCEPT !.sessionStart = sessionStartTime])
    /\ UNCHANGED rlockHolders

GqCount(t) ==
    /\ GqStep(t, "gq_count", "gq_copy",
              [local[t] EXCEPT
                  !.queued = CountStatus(downloadQueue, StatusQueued),
                  !.completed = CountStatus(downloadQueue, StatusCompleted),
                  !.failed = CountStatus(downloadQueue, StatusFailed),
                  !.skipped = CountStatus(downloadQueue, StatusSkipped)])
    /\ UNCHANGED rlockHolders

GqCopy(t) ==
    /\ GqStep(t, "gq_copy", "gq_done", [local[t] EXCEPT !.Queue = downloadQueue])
    /\ rlockHolders' = rlockHolders \ {t}

\* the caller has the DownloadQueueInfo and drops it
GqReturn(t) ==
    /\ GqStep(t, "gq_done", "idle", EmptyLocal)
    /\ UNCHANGED rlockHolders

\* the value GetDownloadQueue returns to thread t
DownloadQueueInfo(t) ==
    [IsDownloading |-> local[t].downloading,
     Queue |-> local[t].Queue,
     CurrentSpeed |-> local[t].speed,
     TotalDownloaded |-> local[t].total,
     SessionStartTime |-> local[t].sessionStart,
     QueuedCount |-> local[t].queued,
     CompletedCount |-> local[t].completed,
     FailedCount |-> local[t].failed,
     SkippedCount |-> local[t].skipped]

---------------------------------------------------------------------------
(* ClearAllDownloads: six critical sections, one after the other *)

CaStep(t, from, to) ==
    /\ pc[t] = from
    /\ pc' = [pc EXCEPT ![t] = to]
    /\ UNCHANGED <<rlockHolders, local>>
    /\ UNCHANGED threadFrame

CaQueue(t) ==
    /\ QueueLockFree
    /\ CaStep(t, "idle", "ca_total")
    /\ downloadQueue' = <<>>
    /\ UNCHANGED <<totalDownloaded, sessionStartTime, currentItemID,
                   currentProgress, currentSpeed>>

CaTotal(t) ==
    /\ CaStep(t, "ca_total", "ca_session")
    /\ totalDownloaded' = 0
    /\ UNCHANGED <<downloadQueue, sessionStartTime, currentItemID,
                   currentProgress, currentSpeed>>

CaSession(t) ==
    /\ CaStep(t, "ca_session", "ca_item")
    /\ sessionStartTime' = 0
    /\ UNCHANGED <<downloadQueue, totalDownloaded, currentItemID,
                   currentProgress, currentSpeed>>

CaItem(t) ==
    /\ CaStep(t, "ca_item", "ca_progress")
    /\ currentItemID' = ""
    /\ UNCHANGED <<downloadQueue, totalDownloaded, sessionStartTime,
                   currentProgress, currentSpeed>>

CaProgress(t) ==
    /\ CaStep(t, "ca_progress", "ca_speed")
    /\ currentProgress' = 0
    /\ UNCHANGED <<downloadQueue, totalDownloaded, sessionStartTime,
                   currentItemID, currentSpeed>>

CaSpeed(t) ==
    /\ CaStep(t, "ca_speed", "idle")
    /\ currentSpeed' = 0
    /\ UNCHANGED <<downloadQueue, totalDownloaded, sessionStartTime,
                   currentItemID, currentProgress>>

---------------------------------------------------------------------------
(* Bookkeeping of a step: which call was made, how many so far, and the     *)
(* sums of finalSize over the CompleteDownloadItem calls since              *)
(* totalDownloaded was last zeroed.                                          *)

\* a new call by some caller
Made(op, id) ==
    /\ calls < MaxCalls
    /\ calls' = calls + 1
    /\ lastCall' = Call(op, id, FindItem(downloadQueue, id) # 0,
                       Len(downloadQueue))

\* the next critical section of the call thread t is in
Continued(step, t) ==
    /\ calls' = calls
    /\ lastCall' = Call(step, t, FALSE, Len(downloadQueue))

CompleteCounted(id, finalSize) ==
    hist' = [completeAll |-> hist.completeAll + finalSize,
             completeFound |-> IF FindItem(downloadQueue, id) # 0
                               THEN hist.completeFound + finalSize
                               ELSE hist.completeFound]

---------------------------------------------------------------------------
(* The queue store under concurrent callers *)

Init ==
    /\ downloadQueue = <<>>
    /\ totalDownloaded = 0
    /\ sessionStartTime = 0
    /\ currentItemID = ""
    /\ currentProgress = 0
    /\ currentSpeed = 0
    /\ activeDownloads = 0
    /\ rlockHolders = {}
    /\ now = 1
    /\ pc = [t \in Threads |-> "idle"]
    /\ local = [t \in Threads |-> EmptyLocal]
    /\ pw = NoWriter
    /\ stream = <<>>
    /\ mutex = NoMutex
    /\ hist = NoHist
    /\ lastCall = Call("", "", FALSE, 0)
    /\ calls = 0

Next ==
    \/ \E id \in Ids :
          Made("AddToQueue", id) /\ AddToQueue(id) /\ UNCHANGED hist
    \/ \E id \in Ids :
          Made("StartDownloadItem", id) /\ StartDownloadItem(id) /\ UNCHANGED hist
    \/ \E id \in Ids, p \in Sizes, s \in Sizes :
          Made("UpdateItemProgress", id) /\ UpdateItemProgress(id, p, s)
          /\ UNCHANGED hist
    \/ \E id \in Ids, f \in Paths, n \in Sizes :
          Made("CompleteDownloadItem", id) /\ CompleteDownloadItem(id, f, n)
          /\ CompleteCounted(id, n)
    \/ \E id \in Ids, e \in ErrorMsgs :
          Made("FailDownloadItem", id) /\ FailDownloadItem(id, e) /\ UNCHANGED hist
    \/ \E id \in Ids, f \in Paths :
          Made("SkipDownloadItem", id) /\ SkipDownloadItem(id, f) /\ UNCHANGED hist
    \/ Made("ClearDownloadQueue", "") /\ ClearDownloadQueue /\ UNCHANGED hist
    \/ Made("CancelAllQueuedItems", "") /\ CancelAllQueuedItems /\ UNCHANGED hist
    \/ \E v \in Sizes :
          Made("SetDownloadSpeed", "") /\ SetDownloadSpeed(v) /\ UNCHANGED hist
    \/ \E v \in Sizes :
          Made("SetDownloadProgress", "") /\ SetDownloadProgress(v) /\ UNCHANGED hist
    \/ Made("Tick", "") /\ Tick /\ UNCHANGED hist
    \/ Made("ResetSessionIfComplete", Poller)
       /\ ResetScan(Poller, "ResetSessionIfComplete") /\ UNCHANGED hist
    \/ Made("GetDownloadQueue", Poller)
       /\ ResetScan(Poller, "GetDownloadQueue") /\ UNCHANGED hist
    \/ Made("ClearAllDownloads", Clearer) /\ CaQueue(Clearer) /\ UNCHANGED hist
    \/ \E t \in Threads :
          \/ Continued("ResetSessionStart", t) /\ ResetSessionStart(t)
             /\ UNCHANGED hist
          \/ Continued("ResetTotal", t) /\ ResetTotal(t) /\ hist' = NoHist
          \/ Continued("GqRLock", t) /\ GqRLock(t) /\ UNCHANGED hist
          \/ Continued("GqSpeed", t) /\ GqSpeed(t) /\ UNCHANGED hist
          \/ Continued("GqTotal", t) /\ GqTotal(t) /\ UNCHANGED hist
          \/ Continued("GqSession", t) /\ GqSession(t) /\ UNCHANGED hist
          \/ Continued("GqCount", t) /\ GqCount(t) /\ UNCHANGED hist
          \/ Continued("GqCopy", t) /\ GqCopy(t) /\ UNCHANGED hist
          \/ Continued("GqReturn", t) /\ GqReturn(t) /\ UNCHANGED hist
          \/ Continued("CaTotal", t) /\ CaTotal(t) /\ hist' = NoHist
          \/ Continued("CaSession", t) /\ CaSession(t) /\ UNCHANGED hist
          \/ Continued("CaItem", t) /\ CaItem(t) /\ UNCHANGED hist
          \/ Continued("CaProgress", t) /\ CaProgress(t) /\ UNCHANGED hist
          \/ Continued("CaSpeed", t) /\ CaSpeed(t) /\ UNCHANGED hist

Spec == Init /\ [][Next]_vars

---------------------------------------------------------------------------
(* Claims about the queue store *)

IdOps == {"StartDownloadItem", "UpdateItemProgress", "CompleteDownloadItem",
          "FailDownloadItem", "SkipDownloadItem"}

\* a step that keeps every record at its index (only the two clears remove)
KeepsRecords == lastCall'.op \notin {"ClearDownloadQueue", "ClearAllDownloads"}

StatusRank(status) ==
    CASE status = StatusQueued -> 0
      [] status = StatusDownloading -> 1
      [] OTHER -> 2

\* C1: a record's status only moves forward along Queued -> Downloading ->
\* {Completed, Failed, Skipped}: a terminal status never changes again and no
\* record returns to Queued or Downloading from a later status.
C1_StatusOnlyMovesForward ==
    [][KeepsRecords =>
         \A i \in DOMAIN downloadQueue :
            /\ StatusRank(downloadQueue'[i].Status)
                  >= StatusRank(downloadQueue[i].Status)
            /\ downloadQueue[i].Status \in Terminal
                  => downloadQueue'[i].Status = downloadQueue[i].Status]_vars

\* C3, as stated: totalDownloaded is the sum of finalSize over every
\* CompleteDownloadItem call made since totalDownloaded was last zeroed.
C3_TotalIsSumOverEveryCompleteCall == totalDownloaded = hist.completeAll

\* C3, amended: totalDownloaded is the sum of finalSize over the
\* CompleteDownloadItem calls whose id matched a record, made since
\* totalDownloaded was last zeroed (a call with an unknown id adds nothing),
\* and the other queue operations leave totalDownloaded as it is.
C3_TotalIsSumOverMatchedCompleteCalls ==
    /\ [](totalDownloaded = hist.completeFound)
    /\ [][lastCall'.op \in {"FailDownloadItem", "SkipDownloadItem",
                            "UpdateItemProgress", "StartDownloadItem",
                            "CancelAllQueuedItems", "ClearDownloadQueue"}
            => totalDownloaded' = totalDownloaded]_vars

\* after ClearAllDownloads zeroed the total, a matched and an unmatched
\* CompleteDownloadItem call were made
C3_Witness ==
    /\ pc[Clearer] = "ca_session"
    /\ hist.completeFound > 0
    /\ hist.completeAll > hist.completeFound

\* the number of records of the returned copy with the given status
InCopy(info, status) ==
    Cardinality({i \in DOMAIN info.Queue : info.Queue[i].Status = status})

\* C4: in every GetDownloadQueue result the four counts are the numbers of
\* records with that status in the returned Queue copy, so their sum is at
\* most len(Queue), short of it by the number of Downloading records.
C4_CountsMatchReturnedQueue ==
    \A t \in Threads :
       pc[t] = "gq_done" =>
          LET info == DownloadQueueInfo(t)
              sum == info.QueuedCount + info.CompletedCount
                        + info.FailedCount + info.SkippedCount
          IN  /\ info.QueuedCount = InCopy(info, StatusQueued)
              /\ info.CompletedCount = InCopy(info, StatusCompleted)
              /\ info.FailedCount = InCopy(info, StatusFailed)
              /\ info.SkippedCount = InCopy(info, StatusSkipped)
              /\ sum <= Len(info.Queue)
              /\ Len(info.Queue) - sum = InCopy(info, StatusDownloading)

C4_Witness ==
    /\ pc[Poller] = "gq_done"
    /\ DownloadQueueInfo(Poller).QueuedCount = 1
    /\ InCopy(DownloadQueueInfo(Poller), StatusDownloading) = 1

PendingIdx(q) ==
    {i \in DOMAIN q : q[i].Status \in {StatusQueued, StatusDownloading}}

\* the index in q of its k-th Queued or Downloading record
NthPending(q, k) ==
    CHOOSE i \in PendingIdx(q) :
       Cardinality({j \in PendingIdx(q) : j <= i}) = k

\* C5: ClearDownloadQueue leaves exactly the Queued and Downloading records,
\* in their order and with every field as it was.
C5_ClearKeepsExactlyPending ==
    [][lastCall'.op = "ClearDownloadQueue" =>
         /\ Len(downloadQueue') = Cardinality(PendingIdx(downloadQueue))
         /\ \A k \in DOMAIN downloadQueue' :
               downloadQueue'[k] = downloadQueue[NthPending(downloadQueue, k)]]_vars

\* a clear of three records removed the terminal one and kept two different ones
C5_Witness ==
    /\ lastCall.op = "ClearDownloadQueue"
    /\ lastCall.len = 3
    /\ Len(downloadQueue) = 2
    /\ downloadQueue[1].ID # downloadQueue[2].ID

\* C7: AddToQueue writes sessionStartTime only when it is 0; a call made
\* while a session is open leaves it unchanged.
C7_AddKeepsOpenSessionStart ==
    [][lastCall'.op = "AddToQueue" =>
         /\ sessionStartTime # 0 => sessionStartTime' = sessionStartTime
         /\ sessionStartTime = 0 => sessionStartTime' = now]_vars

\* an AddToQueue at a later time than the one that opened the session
C7_Witness ==
    /\ lastCall.op = "AddToQueue"
    /\ sessionStartTime # 0
    /\ sessionStartTime < now

\* C8: an id-addressed mutating operation called with an id that matches no
\* record changes nothing: queue, totalDownloaded, sessionStartTime, cursor,
\* progress and speed aggregates.
C8_UnknownIdIsNoOp ==
    [][(lastCall'.op \in IdOps /\ ~lastCall'.found) => UNCHANGED storeVars]_vars

\* C9: CancelAllQueuedItems makes every Queued record Skipped with
\* errorMessage "Cancelled" and endTime set, changes no other field of it and
\* no other record, and keeps length and order.
C9_CancelChangesOnlyQueued ==
    [][lastCall'.op = "CancelAllQueuedItems" =>
         /\ Len(downloadQueue') = Len(downloadQueue)
         /\ \A i \in DOMAIN downloadQueue :
               IF downloadQueue[i].Status = StatusQueued
               THEN /\ downloadQueue'[i].Status = StatusSkipped
                    /\ downloadQueue'[i].ErrorMessage = "Cancelled"
                    /\ downloadQueue'[i].EndTime = now
                    /\ downloadQueue'[i].EndTime # 0
                    /\ \A f \in DOMAIN downloadQueue[i] \ {"Status", "ErrorMessage", "EndTime"} :
                          downloadQueue'[i][f] = downloadQueue[i][f]
               ELSE downloadQueue'[i] = downloadQueue[i]]_vars

\* a cancel found one Downloading and one Queued record
C9_Witness ==
    /\ lastCall.op = "CancelAllQueuedItems"
    /\ lastCall.len = 2
    /\ \E i, j \in DOMAIN downloadQueue :
          /\ downloadQueue[i].Status = StatusDownloading
          /\ downloadQueue[i].EndTime = 0
          /\ downloadQueue[j].Status = StatusSkipped
          /\ downloadQueue[j].ErrorMessage = "Cancelled"
          /\ downloadQueue[j].StartTime = 0

\* thread t is between two steps of one call (at gq_done the call has
\* returned and the caller holds the result)
MidOperation(t) == pc[t] \notin {"idle", "gq_done"}

\* C11: every store operation is atomic: while a thread is between two steps
\* of its GetDownloadQueue or ClearAllDownloads, no step of another caller
\* takes effect on the store.
C11_NothingTakesEffectInsideAnOperation ==
    [][\A t \in Threads :
          (MidOperation(t) /\ pc'[t] = pc[t]) => UNCHANGED storeVars]_vars

\* C13: a GetDownloadQueue result whose Queue holds no Queued or Downloading
\* record has TotalDownloaded = 0 and SessionStartTime = 0.
C13_SnapshotWithoutPendingIsZeroed ==
    \A t \in Threads :
       (pc[t] = "gq_done" /\ ~HasActiveOrQueued(DownloadQueueInfo(t).Queue)) =>
          /\ DownloadQueueInfo(t).TotalDownloaded = 0
          /\ DownloadQueueInfo(t).SessionStartTime = 0

DownloadingIdx(q) == {i \in DOMAIN q : q[i].Status = StatusDownloading}

\* the index in q of its k-th Downloading record
NthDownloading(q, k) ==
    CHOOSE i \in DownloadingIdx(q) :
       Cardinality({j \in DownloadingIdx(q) : j <= i}) = k

\* the call just made is op, for the id of a Downloading record
CalledForDownloading(op) ==
    /\ lastCall'.op = op
    /\ \E i \in DownloadingIdx(downloadQueue) :
          downloadQueue[i].ID = lastCall'.id

\* a cancel or a clear keeps the Downloading records, each as it was
KeepsDownloading ==
    lastCall'.op \in {"CancelAllQueuedItems", "ClearDownloadQueue"} =>
       /\ Cardinality(DownloadingIdx(downloadQueue'))
             = Cardinality(DownloadingIdx(downloadQueue))
       /\ \A k \in 1..Cardinality(DownloadingIdx(downloadQueue)) :
             downloadQueue'[NthDownloading(downloadQueue', k)]
                = downloadQueue[NthDownloading(downloadQueue, k)]

\* op, called for the id of a Downloading record, gives that record status
AcceptedForDownloading(op, status) ==
    CalledForDownloading(op) =>
       LET i == FindItem(downloadQueue, lastCall'.id)
       IN  /\ lastCall'.found
           /\ downloadQueue[i].Status = StatusDownloading
           /\ downloadQueue'[i].Status = status

\* C15: CancelAllQueuedItems and ClearDownloadQueue keep every Downloading
\* record, with every field as it was; a Downloading record is the first
\* record with its id, so a CompleteDownloadItem or FailDownloadItem called
\* for it finds it and makes it Completed or Failed.
C15_DownloadingSurvivesCancelAndClear ==
    /\ [](\A i \in DownloadingIdx(downloadQueue) :
             FindItem(downloadQueue, downloadQueue[i].ID) = i)
    /\ [][/\ KeepsDownloading
           /\ AcceptedForDownloading("CompleteDownloadItem", StatusCompleted)
           /\ AcceptedForDownloading("FailDownloadItem", StatusFailed)]_vars

\* five calls: two records added, the first started, a cancel that took only
\* the second, and the first completed afterwards
C15_Witness ==
    /\ calls = 5
    /\ lastCall.op = "CompleteDownloadItem"
    /\ lastCall.found
    /\ Len(downloadQueue) = 2
    /\ downloadQueue[1].Status = StatusCompleted
    /\ downloadQueue[1].StartTime # 0
    /\ downloadQueue[1].ErrorMessage = ""
    /\ downloadQueue[2].Status = StatusSkipped
    /\ downloadQueue[2].ErrorMessage = "Cancelled"

\* no store operation is mid-execution
Quiescent == \A t \in Threads : ~MidOperation(t)

\* C19: whenever no operation is mid-execution and the queue holds a Queued
\* or Downloading record, sessionStartTime is not 0.
C19_PendingImpliesSessionOpen ==
    (Quiescent /\ HasActiveOrQueued(downloadQueue)) => sessionStartTime # 0

---------------------------------------------------------------------------
(* SetDownloading and GetDownloadProgress under concurrent callers: one     *)
(* action per atomic instruction or critical section.  Two workers call     *)
(* SetDownloading in any order; the poller calls GetDownloadProgress.       *)

MaxActive == 2

Workers == {"w1", "w2"}

\* v: what atomic.AddInt64(&activeDownloads, -1) returned to the worker;
\* the rest: the reads of GetDownloadProgress; afterZero: bookkeeping, whether
\* the read began after a decrement that reached 0 had returned
ActiveLocal ==
    [v |-> 1, downloading |-> FALSE, progress |-> 0, speed |-> 0,
     afterZero |-> FALSE]

\* a decrement that resets only below zero
ReachedBelowZero(v) == v < 0

\* if atomic.AddInt64(&activeDownloads, -1) <= 0
ReachedZero(v) == v <= 0

activeFrame == <<downloadQueue, totalDownloaded, sessionStartTime,
                 currentItemID, rlockHolders, now, pw, stream, mutex, lastCall,
                 calls>>

\* SetDownloading(true)
SdIncrement(w) ==
    /\ pc[w] = "idle"
    /\ activeDownloads < MaxActive
    /\ activeDownloads' = activeDownloads + 1
    /\ UNCHANGED <<currentProgress, currentSpeed, pc, local>>
    /\ UNCHANGED activeFrame

\* SetDownloading(false): the atomic add and its test
SdDecrement(w) ==
    /\ pc[w] = "idle"
    /\ activeDownloads' = activeDownloads - 1
    /\ local' = [local EXCEPT ![w].v = activeDownloads - 1]
    /\ pc' = [pc EXCEPT ![w] = IF ReachedZero(activeDownloads - 1)
                                 THEN "sd_store" ELSE "sd_return"]
    /\ UNCHANGED <<currentProgress, currentSpeed>>
    /\ UNCHANGED activeFrame

SdStore(w) ==
    /\ pc[w] = "sd_store"
    /\ activeDownloads' = 0
    /\ pc' = [pc EXCEPT ![w] = "sd_progress"]
    /\ UNCHANGED <<currentProgress, currentSpeed, local>>
    /\ UNCHANGED activeFrame

SdProgress(w) ==
    /\ pc[w] = "sd_progress"
    /\ currentProgress' = 0
    /\ pc' = [pc EXCEPT ![w] = "sd_speed"]
    /\ UNCHANGED <<activeDownloads, currentSpeed, local>>
    /\ UNCHANGED activeFrame

SdSpeed(w) ==
    /\ pc[w] = "sd_speed"
    /\ currentSpeed' = 0
    /\ pc' = [pc EXCEPT ![w] = "sd_return"]
    /\ UNCHANGED <<activeDownloads, currentProgress, local>>
    /\ UNCHANGED activeFrame

\* SetDownloading(false) returns to its caller
SdReturn(w) ==
    /\ pc[w] = "sd_return"
    /\ pc' = [pc EXCEPT ![w] = "idle"]
    /\ local' = [local EXCEPT ![w].v = 1]
    /\ UNCHANGED <<activeDownloads, currentProgress, currentSpeed>>
    /\ UNCHANGED activeFrame

GpStep(r, from, to, l) ==
    /\ pc[r] = from
    /\ pc' = [pc EXCEPT ![r] = to]
    /\ local' = [local EXCEPT ![r] = l]
    /\ UNCHANGED <<activeDownloads, currentProgress, currentSpeed, hist>>
    /\ UNCHANGED activeFrame

GpLoad(r) ==
    GpStep(r, "idle", "gp_progress",
           [ActiveLocal EXCEPT !.downloading = activeDownloads > 0,
                               !.afterZero = hist.zeroReturned])

GpProgress(r) ==
    GpStep(r, "gp_progress", "gp_speed",
           [local[r] EXCEPT !.progress = currentProgress])

GpSpeed(r) ==
    GpStep(r, "gp_speed", "gp_done", [local[r] EXCEPT !.speed = currentSpeed])

GpReturn(r) == GpStep(r, "gp_done", "idle", ActiveLocal)

\* the value GetDownloadProgress returns to thread r
ProgressInfo(r) ==
    [IsDownloading |-> local[r].downloading,
     MBDownloaded |-> local[r].progress,
     SpeedMBps |-> local[r].speed]

\* a sampler has published progress and speed before the workers stop
InitActive ==
    /\ downloadQueue = <<>>
    /\ totalDownloaded = 0
    /\ sessionStartTime = 0
    /\ currentItemID = ""
    /\ currentProgress = 1
    /\ currentSpeed = 1
    /\ activeDownloads = 0
    /\ rlockHolders = {}
    /\ now = 1
    /\ pc = [t \in Workers \cup {Poller} |-> "idle"]
    /\ local = [t \in Workers \cup {Poller} |-> ActiveLocal]
    /\ pw = NoWriter
    /\ stream = <<>>
    /\ mutex = NoMutex
    /\ hist = [zeroReturned |-> FALSE]
    /\ lastCall = Call("", "", FALSE, 0)
    /\ calls = 0

\* bookkeeping: a SetDownloading(false) whose add reached 0 or less returns
ZeroNoted(w) ==
    hist' = [zeroReturned |-> hist.zeroReturned \/ local[w].v <= 0]

NextActive ==
    \/ \E w \in Workers :
          \/ SdIncrement(w) /\ UNCHANGED hist
          \/ SdDecrement(w) /\ UNCHANGED hist
          \/ SdStore(w) /\ UNCHANGED hist
          \/ SdProgress(w) /\ UNCHANGED hist
          \/ SdSpeed(w) /\ UNCHANGED hist
          \/ SdReturn(w) /\ ZeroNoted(w)
    \/ GpLoad(Poller)
    \/ GpProgress(Poller)
    \/ GpSpeed(Poller)
    \/ GpReturn(Poller)

SpecActive == InitActive /\ [][NextActive]_vars

\* C2: activeDownloads is never negative, not even between the atomic add
\* and the atomic store of a decrement.
C2_ActiveNeverNegative == activeDownloads >= 0

\* C6: a GetDownloadProgress begun after a SetDownloading(false) that drove
\* the count to 0 has returned reads progress 0 and speed 0.
C6_ReadAfterZeroIsZero ==
    (pc[Poller] = "gp_done" /\ local[Poller].afterZero) =>
       /\ ProgressInfo(Poller).MBDownloaded = 0
       /\ ProgressInfo(Poller).SpeedMBps = 0

\* such a read has completed while another worker is inside a decrement
C6_Witness ==
    /\ pc[Poller] = "gp_done"
    /\ local[Poller].afterZero
    /\ \E w \in Workers : pc[w] \in {"sd_store", "sd_progress", "sd_speed"}

---------------------------------------------------------------------------
(* ProgressWriter.  Here `now` is the millisecond clock of                  *)
(* getCurrentTimeMillis, currentProgress and the Progress field count       *)
(* bytes (the code divides by 1024*1024, exactly), and a speed is in whole  *)
(* bytes per second: bytesDiff / (ms / 1000), the code's MB/s times         *)
(* 1024*1024, rounded down.                                                 *)

MaxTickMs == 3

\* if pw.total-pw.lastPrinted >= 256*1024
SampleThreshold == 256 * 1024

KiB300 == 300 * 1024

\* a 1,048,576-byte stream cut into 300 KiB writes
Chunks1MiB == <<KiB300, KiB300, KiB300, 1048576 - 3 * KiB300>>

NewProgressWriter(t) ==
    [total |-> 0, lastPrinted |-> 0, startTime |-> t, lastTime |-> t,
     lastBytes |-> 0, itemID |-> ""]

NewProgressWriterWithID(t, itemID) ==
    [NewProgressWriter(t) EXCEPT !.itemID = itemID]

\* a sampler that waits until more than the threshold has come in
ShouldSampleAbove(w) == w.total - w.lastPrinted > SampleThreshold

ShouldSample(w) == w.total - w.lastPrinted >= SampleThreshold

\* speedMBps = (bytesDiff / (1024 * 1024)) / timeDiff, timeDiff > 0
SpeedOf(bytesDiff, ms) == (bytesDiff * 1000) \div ms

\* a sample that forgets pw.lastPrinted = pw.total
SampledKeepingLastPrinted(w, t) ==
    [w EXCEPT !.lastTime = t, !.lastBytes = w.total]

\* the three assignments that end a sample
Sampled(w, t) ==
    [w EXCEPT !.lastPrinted = w.total, !.lastTime = t, !.lastBytes = w.total]

writeFrame == <<totalDownloaded, sessionStartTime, currentItemID,
                activeDownloads, rlockHolders, now, pc, local, mutex, lastCall,
                calls>>

\* Write(p) with the sink returning (n, nil); no other thread runs
Write(n) ==
    LET w == [pw EXCEPT !.total = pw.total + n]
        timeDiff == now - pw.lastTime
        bytesDiff == w.total - pw.lastBytes
        speedMBps == IF timeDiff > 0 THEN SpeedOf(bytesDiff, timeDiff) ELSE 0
    IN  /\ IF ShouldSample(w)
           THEN /\ currentSpeed' = IF timeDiff > 0 THEN speedMBps ELSE currentSpeed
                /\ currentProgress' = w.total
                /\ downloadQueue' =
                      IF pw.itemID # ""
                      THEN UpdatedQueue(downloadQueue, pw.itemID, w.total, speedMBps)
                      ELSE downloadQueue
                /\ pw' = Sampled(w, now)
           ELSE /\ pw' = w
                /\ UNCHANGED <<currentSpeed, currentProgress, downloadQueue>>
        /\ UNCHANGED writeFrame

\* a millisecond passes
TickMs ==
    /\ now' = now + 1
    /\ UNCHANGED <<storeVars, activeDownloads, rlockHolders, pc, local, pw,
                   stream, mutex, lastCall, calls>>

\* bookkeeping of a write: the samples and throughput updates so far, the
\* clock at the last write, and what the first write found elapsed
WriteCounted(n) ==
    LET sample == ShouldSample([pw EXCEPT !.total = pw.total + n])
    IN  hist' = [samples |-> hist.samples + IF sample THEN 1 ELSE 0,
                 speedCalls |-> hist.speedCalls
                                   + IF sample /\ now > pw.lastTime THEN 1 ELSE 0,
                 writes |-> hist.writes + 1,
                 lastWrite |-> now,
                 firstElapsed |-> IF hist.writes = 0 THEN now - pw.startTime
                                  ELSE hist.firstElapsed]

\* one item is queued and downloading; its writer is built with or without
\* the item's id
InitStream ==
    /\ downloadQueue = StartedQueue(<<DownloadItem("a")>>, "a", 1)
    /\ totalDownloaded = 0
    /\ sessionStartTime = 1
    /\ currentItemID = "a"
    /\ currentProgress = 0
    /\ currentSpeed = 0
    /\ activeDownloads = 1
    /\ rlockHolders = {}
    /\ now = 1
    /\ pc = [t \in Threads |-> "idle"]
    /\ local = [t \in Threads |-> EmptyLocal]
    /\ pw \in {NewProgressWriter(1), NewProgressWriterWithID(1, "a")}
    /\ stream = Chunks1MiB
    /\ mutex = NoMutex
    /\ hist = [samples |-> 0, speedCalls |-> 0, writes |-> 0, lastWrite |-> 1,
               firstElapsed |-> 0]
    /\ lastCall = Call("", "", FALSE, 0)
    /\ calls = 0

\* the clock advances between two writes; it may stand still before the first
NextStream ==
    \/ /\ now - hist.lastWrite < MaxTickMs
       /\ TickMs
       /\ UNCHANGED hist
    \/ /\ stream # <<>>
       /\ hist.writes = 0 \/ now > hist.lastWrite
       /\ Write(Head(stream))
       /\ WriteCounted(Head(stream))
       /\ stream' = Tail(stream)

SpecStream == InitStream /\ [][NextStream]_vars

\* C10, as stated: the whole stream publishes exactly one throughput update.
C10_OneThroughputUpdate ==
    stream = <<>> => hist.speedCalls = 1

\* C10, amended: each of the three 307,200-byte writes takes a sample and the
\* last write takes none; a sample publishes a throughput update when time
\* has passed since the previous sample (or the construction), so the stream
\* publishes three, or two when the first write comes in the millisecond of
\* the construction.
C10_OneUpdatePerFullChunk ==
    stream = <<>> =>
       /\ hist.samples = 3
       /\ hist.speedCalls = IF hist.firstElapsed > 0 THEN 3 ELSE 2
       /\ pw.total = 1048576
       /\ pw.lastPrinted = 3 * KiB300
       /\ currentProgress = 3 * KiB300

C10_Witness ==
    /\ stream = <<>>
    /\ hist.writes = 4
    /\ hist.firstElapsed > 0
    /\ hist.speedCalls = 3
    /\ currentSpeed > 0

---------------------------------------------------------------------------
(* One caller takes a record through its life, AddToQueue ->               *)
(* StartDownloadItem -> UpdateItemProgress -> CompleteDownloadItem, on a    *)
(* store that up to MaxPrepare earlier calls have filled.  No other caller  *)
(* runs.  hist holds the caller's arguments, how far it is, and the queue   *)
(* and total it started from.                                               *)

MaxPrepare == 3

\* finalSize values, different from the progress of the update
FinalSizes == {2, 3}

NotBegun ==
    [step |-> 0, id |-> "", progress |-> 0, speed |-> 0, filePath |-> "",
     finalSize |-> 0, queue0 |-> <<>>, total0 |-> 0]

InitScenario ==
    /\ downloadQueue = <<>>
    /\ totalDownloaded = 0
    /\ sessionStartTime = 0
    /\ currentItemID = ""
    /\ currentProgress = 0
    /\ currentSpeed = 0
    /\ activeDownloads = 0
    /\ rlockHolders = {}
    /\ now = 1
    /\ pc = [t \in Threads |-> "idle"]
    /\ local = [t \in Threads |-> EmptyLocal]
    /\ pw = NoWriter
    /\ stream = <<>>
    /\ mutex = NoMutex
    /\ hist = NotBegun
    /\ lastCall = Call("", "", FALSE, 0)
    /\ calls = 0

\* an earlier call
Prepared(op, id) ==
    /\ hist.step = 0
    /\ calls < MaxPrepare
    /\ calls' = calls + 1
    /\ lastCall' = Call(op, id, FindItem(downloadQueue, id) # 0,
                       Len(downloadQueue))
    /\ UNCHANGED hist

\* the caller's next call
ScenarioStep(k, op) ==
    /\ hist.step = k
    /\ hist' = [hist EXCEPT !.step = k + 1]
    /\ lastCall' = Call(op, hist.id, FindItem(downloadQueue, hist.id) # 0,
                       Len(downloadQueue))
    /\ calls' = calls

NextScenario ==
    \/ \E id \in Ids : Prepared("AddToQueue", id) /\ AddToQueue(id)
    \/ \E id \in Ids : Prepared("StartDownloadItem", id) /\ StartDownloadItem(id)
    \/ \E id \in Ids, f \in Paths, n \in Sizes :
          Prepared("CompleteDownloadItem", id) /\ CompleteDownloadItem(id, f, n)
    \/ \E id \in Ids, e \in ErrorMsgs :
          Prepared("FailDownloadItem", id) /\ FailDownloadItem(id, e)
    \/ Prepared("CancelAllQueuedItems", "") /\ CancelAllQueuedItems
    \/ Prepared("ClearDownloadQueue", "") /\ ClearDownloadQueue
    \/ /\ calls < MaxPrepare
       /\ calls' = calls + 1
       /\ Tick
       /\ UNCHANGED <<hist, lastCall>>
    \/ \E id \in Ids, p \in Sizes, sp \in Sizes, f \in Paths, n \in FinalSizes :
          /\ hist.step = 0
          /\ AddToQueue(id)
          /\ hist' = [step |-> 1, id |-> id, progress |-> p, speed |-> sp,
                      filePath |-> f, finalSize |-> n,
                      queue0 |-> downloadQueue, total0 |-> totalDownloaded]
          /\ lastCall' = Call("AddToQueue", id, FindItem(downloadQueue, id) # 0,
                             Len(downloadQueue))
          /\ calls' = calls
    \/ ScenarioStep(1, "StartDownloadItem") /\ StartDownloadItem(hist.id)
    \/ /\ ScenarioStep(2, "UpdateItemProgress")
       /\ UpdateItemProgress(hist.id, hist.progress, hist.speed)
    \/ /\ ScenarioStep(3, "CompleteDownloadItem")
       /\ CompleteDownloadItem(hist.id, hist.filePath, hist.finalSize)

SpecScenario == InitScenario /\ [][NextScenario]_vars

\* C14: after AddToQueue(id) -> StartDownloadItem(id) ->
\* UpdateItemProgress(id, p, s) -> CompleteDownloadItem(id, path, finalSize)
\* the record with that id (the first one, when the id was in the queue
\* already) is Completed with progress = totalSize = finalSize and
\* filePath = path, totalDownloaded has grown by exactly finalSize, and every
\* other record is as it was (the appended one as AddToQueue made it).
C14_LifeOfOneRecord ==
    hist.step = 4 =>
       LET i == FindItem(downloadQueue, hist.id)
           n0 == Len(hist.queue0)
       IN  /\ i # 0
           /\ downloadQueue[i].Status = StatusCompleted
           /\ downloadQueue[i].Progress = hist.finalSize
           /\ downloadQueue[i].TotalSize = hist.finalSize
           /\ downloadQueue[i].FilePath = hist.filePath
           /\ totalDownloaded = hist.total0 + hist.finalSize
           /\ Len(downloadQueue) = n0 + 1
           /\ \A j \in DOMAIN downloadQueue \ {i} :
                 downloadQueue[j] = IF j <= n0 THEN hist.queue0[j]
                                    ELSE DownloadItem(hist.id)

\* the four calls ran on a queue that held another record and a total
C14_Witness ==
    /\ hist.step = 4
    /\ hist.total0 > 0
    /\ Len(hist.queue0) = 1
    /\ FindItem(hist.queue0, hist.id) = 0
    /\ downloadQueue[2].Status = StatusCompleted

---------------------------------------------------------------------------
(* ProgressWriter over any sink: a write of len(p) bytes is accepted whole, *)
(* in part or not at all, and two writes may come within one millisecond.   *)
(* Units as above.  hist holds what the sink returned and what Write        *)
(* returned for the last write, and the sum of the sink's counts.           *)

MaxWrites == 3

\* len(p) of a write
WriteLens == {128 * 1024, 300 * 1024}

\* what pw.writer.Write(p) may return, as <<n, err>>: an io.Writer returns
\* 0 <= n <= len(p), with an error when n < len(p)
SinkResults(len) ==
    {<<len, "">>, <<len \div 2, "short write">>, <<0, "closed pipe">>}

\* return n, err
WriteResult(n, err) == <<n, err>>

GetTotal(w) == w.total

InitWriter ==
    /\ downloadQueue = StartedQueue(<<DownloadItem("a")>>, "a", 1)
    /\ totalDownloaded = 0
    /\ sessionStartTime = 1
    /\ currentItemID = "a"
    /\ currentProgress = 0
    /\ currentSpeed = 0
    /\ activeDownloads = 1
    /\ rlockHolders = {}
    /\ now = 1
    /\ pc = [t \in Threads |-> "idle"]
    /\ local = [t \in Threads |-> EmptyLocal]
    /\ pw \in {NewProgressWriter(1), NewProgressWriterWithID(1, "a")}
    /\ stream = <<>>
    /\ mutex = NoMutex
    /\ hist = [writes |-> 0, lastWrite |-> 1, sink |-> <<0, "">>,
               returned |-> <<0, "">>, sum |-> 0, sampled |-> FALSE]
    /\ lastCall = Call("", "", FALSE, 0)
    /\ calls = 0

\* bookkeeping of a write whose sink returned r
WriteNoted(r) ==
    hist' = [writes |-> hist.writes + 1,
             lastWrite |-> now,
             sink |-> r,
             returned |-> WriteResult(r[1], r[2]),
             sum |-> hist.sum + r[1],
             sampled |-> ShouldSample([pw EXCEPT !.total = pw.total + r[1]])]

NextWriter ==
    \/ /\ now - hist.lastWrite < MaxTickMs
       /\ TickMs
       /\ UNCHANGED hist
    \/ \E len \in WriteLens :
          \E r \in SinkResults(len) :
             /\ hist.writes < MaxWrites
             /\ Write(r[1])
             /\ WriteNoted(r)
             /\ UNCHANGED stream

SpecWriter == InitWriter /\ [][NextWriter]_vars

\* the record of the writer's item
ItemOf(w) == downloadQueue[FindItem(downloadQueue, w.itemID)]

\* C16: right after a sample of a writer built with an item id, the item's
\* progress is currentProgress and the item's speed is currentSpeed, also
\* when no time has passed since the previous sample.
C16_ItemPairIsAggregatePair ==
    (hist.sampled /\ pw.itemID # "") =>
       /\ ItemOf(pw).Progress = currentProgress
       /\ ItemOf(pw).Speed = currentSpeed

\* what one Write does to the writer and to the published progress
WriteSamplesAtThreshold ==
    hist'.writes # hist.writes =>
       LET n == hist'.sink[1]
       IN  /\ GetTotal(pw') = GetTotal(pw) + n
           /\ IF pw.total + n - pw.lastPrinted >= 262144
              THEN /\ pw'.lastPrinted = pw'.total
                   /\ currentProgress' = pw'.total
              ELSE /\ pw'.lastPrinted = pw.lastPrinted
                   /\ currentProgress' = currentProgress

\* C17: Write returns the sink's (n, err); GetTotal is the sum of the sink's
\* counts, short and failed writes included; a write samples exactly when
\* total - lastPrinted >= 262144 after adding n, and then lastPrinted =
\* total; so after every Write 0 <= total - lastPrinted < 262144.
C17_WriteForwardsAndSamples ==
    /\ [](/\ hist.returned = hist.sink
          /\ GetTotal(pw) = hist.sum
          /\ 0 <= pw.total - pw.lastPrinted
          /\ pw.total - pw.lastPrinted < 262144)
    /\ [][WriteSamplesAtThreshold]_vars

\* a sample taken on exactly 262144 bytes, then a short write
C17_Witness ==
    /\ hist.writes = 3
    /\ hist.sink = <<64 * 1024, "short write">>
    /\ hist.returned = <<64 * 1024, "short write">>
    /\ pw.lastPrinted = 262144
    /\ pw.total = 262144 + 64 * 1024

---------------------------------------------------------------------------
(* SetDownloading as the download workers call it: each worker calls        *)
(* SetDownloading(true) when its download starts and SetDownloading(false)  *)
(* when it ends, again and again.  hist.inflight holds the workers that     *)
(* have made the first call and not yet the second.                         *)

InitPaired ==
    /\ downloadQueue = <<>>
    /\ totalDownloaded = 0
    /\ sessionStartTime = 0
    /\ currentItemID = ""
    /\ currentProgress = 1
    /\ currentSpeed = 1
    /\ activeDownloads = 0
    /\ rlockHolders = {}
    /\ now = 1
    /\ pc = [t \in Workers \cup {Poller} |-> "idle"]
    /\ local = [t \in Workers \cup {Poller} |-> ActiveLocal]
    /\ pw = NoWriter
    /\ stream = <<>>
    /\ mutex = NoMutex
    /\ hist = [zeroReturned |-> FALSE, inflight |-> {}]
    /\ lastCall = Call("", "", FALSE, 0)
    /\ calls = 0

NextPaired ==
    \/ \E w \in Workers :
          \/ /\ w \notin hist.inflight
             /\ SdIncrement(w)
             /\ hist' = [hist EXCEPT !.inflight = @ \cup {w}]
          \/ /\ w \in hist.inflight
             /\ SdDecrement(w)
             /\ hist' = [hist EXCEPT !.inflight = @ \ {w}]
          \/ SdStore(w) /\ UNCHANGED hist
          \/ SdProgress(w) /\ UNCHANGED hist
          \/ SdSpeed(w) /\ UNCHANGED hist
          \/ /\ SdReturn(w)
             /\ hist' = [hist EXCEPT !.zeroReturned = @ \/ local[w].v <= 0]
    \/ GpLoad(Poller)
    \/ GpProgress(Poller)
    \/ GpSpeed(Poller)
    \/ GpReturn(Poller)

SpecPaired == InitPaired /\ [][NextPaired]_vars

\* C18: with every worker pairing its calls, whenever no SetDownloading call
\* is mid-execution activeDownloads is the number of workers that have
\* incremented and not yet decremented.
C18_CounterIsInFlightCount ==
    (\A w \in Workers : pc[w] = "idle") =>
       activeDownloads = Cardinality(hist.inflight)

---------------------------------------------------------------------------
(* The operations lock by lock.  A sync.RWMutex is the thread inside        *)
(* Lock() (holding it, or waiting for the readers to leave) and the set of  *)
(* threads holding RLock.  Lock() waits for the writer before it; from then *)
(* on new readers wait, and it returns when the readers have left.  RLock() *)
(* waits while a writer holds the lock or waits for it.  A step is one lock *)
(* call, or the statements up to the next one.  Two workers call            *)
(* AddToQueue, StartDownloadItem and CompleteDownloadItem, the poller calls *)
(* GetDownloadQueue and the clearer ClearAllDownloads, MaxLockCalls calls   *)
(* in all.                                                                  *)

MaxLockCalls == 4

LockThreads == Workers \cup {Poller, Clearer}

LockIds == {"a"}

\* a thread's arguments and local variables
LockLocal ==
    [id |-> "", filePath |-> "", finalSize |-> 0, hasActiveOrQueued |-> FALSE,
     downloading |-> FALSE, speed |-> 0, total |-> 0, sessionStart |-> 0]

\* l.Lock() can get past the other writers
CanLock(l) == mutex[l].writer = ""

\* l.RLock() can go ahead: no writer holds l or waits for it
CanRLock(l) == mutex[l].writer = ""

\* l.Lock() has returned to t
Locked(t, l) == mutex[l].writer = t /\ mutex[l].readers = {}

WithLock(l, t) == [mutex EXCEPT ![l].writer = t]

\* an Unlock() that is left out
WithoutUnlock(l) == mutex

WithUnlock(l) == [mutex EXCEPT ![l].writer = ""]

WithRLock(l, t) == [mutex EXCEPT ![l].readers = @ \cup {t}]

\* an RUnlock() that is left out
WithoutRUnlock(l, t) == mutex

WithRUnlock(l, t) == [mutex EXCEPT ![l].readers = @ \ {t}]

\* thread t goes from one position to the next, leaving the locks as m
LockStep(t, from, to, m) ==
    /\ pc[t] = from
    /\ pc' = [pc EXCEPT ![t] = to]
    /\ mutex' = m
    /\ rlockHolders' = m["downloadQueueLock"].readers
    /\ UNCHANGED <<activeDownloads, now, pw, stream>>

\* t calls l.Lock()
LockCall(t, l, from, to) ==
    /\ CanLock(l)
    /\ LockStep(t, from, to, WithLock(l, t))
    /\ UNCHANGED storeVars

\* t calls l.RLock()
RLockCall(t, l, from, to) ==
    /\ CanRLock(l)
    /\ LockStep(t, from, to, WithRLock(l, t))
    /\ UNCHANGED storeVars

\* t enters an operation with its arguments in l
Enter(t, to, l) ==
    /\ LockStep(t, "idle", to, mutex)
    /\ local' = [local EXCEPT ![t] = l]
    /\ UNCHANGED storeVars

(* AddToQueue *)

AddToQueue_Call(t, id) == Enter(t, "aq_lock", [LockLocal EXCEPT !.id = id])

AddToQueue_Lock(t) ==
    /\ LockCall(t, "downloadQueueLock", "aq_lock", "aq_append")
    /\ UNCHANGED local

AddToQueue_Append(t) ==
    /\ Locked(t, "downloadQueueLock")
    /\ LockStep(t, "aq_append", "aq_slock", mutex)
    /\ downloadQueue' = Append(downloadQueue, DownloadItem(local[t].id))
    /\ UNCHANGED <<totalDownloaded, sessionStartTime, currentItemID,
                   currentProgress, currentSpeed, local>>

AddToQueue_SessionLock(t) ==
    /\ LockCall(t, "sessionStartLock", "aq_slock", "aq_session")
    /\ UNCHANGED local

AddToQueue_Session(t) ==
    /\ Locked(t, "sessionStartLock")
    /\ LockStep(t, "aq_session", "aq_unlock", WithUnlock("sessionStartLock"))
    /\ sessionStartTime' = OpenSession(sessionStartTime, now)
    /\ UNCHANGED <<downloadQueue, totalDownloaded, currentItemID,
                   currentProgress, currentSpeed, local>>

AddToQueue_Unlock(t) ==
    /\ LockStep(t, "aq_unlock", "idle", WithUnlock("downloadQueueLock"))
    /\ local' = [local EXCEPT ![t] = LockLocal]
    /\ UNCHANGED storeVars

(* StartDownloadItem *)

StartDownloadItem_Call(t, id) == Enter(t, "st_lock", [LockLocal EXCEPT !.id = id])

StartDownloadItem_Lock(t) ==
    /\ LockCall(t, "downloadQueueLock", "st_lock", "st_loop")
    /\ UNCHANGED local

StartDownloadItem_Loop(t) ==
    /\ Locked(t, "downloadQueueLock")
    /\ LockStep(t, "st_loop", "st_ilock", mutex)
    /\ downloadQueue' = StartedQueue(downloadQueue, local[t].id, now)
    /\ UNCHANGED <<totalDownloaded, sessionStartTime, currentItemID,
                   currentProgress, currentSpeed, local>>

StartDownloadItem_ItemLock(t) ==
    /\ LockCall(t, "currentItemLock", "st_ilock", "st_item")
    /\ UNCHANGED local

StartDownloadItem_Item(t) ==
    /\ Locked(t, "currentItemLock")
    /\ LockStep(t, "st_item", "st_unlock", WithUnlock("currentItemLock"))
    /\ currentItemID' = CursorAfterStart(downloadQueue, local[t].id, currentItemID)
    /\ UNCHANGED <<downloadQueue, totalDownloaded, sessionStartTime,
                   currentProgress, currentSpeed, local>>

StartDownloadItem_Unlock(t) ==
    /\ LockStep(t, "st_unlock", "idle", WithUnlock("downloadQueueLock"))
    /\ local' = [local EXCEPT ![t] = LockLocal]
    /\ UNCHANGED storeVars

(* CompleteDownloadItem: totalDownloadedLock is taken inside the loop's    *)
(* match, so only when a record has the id                                  *)

CompleteDownloadItem_Call(t, id, filePath, finalSize) ==
    Enter(t, "co_lock", [LockLocal EXCEPT !.id = id, !.filePath = filePath,
                                          !.finalSize = finalSize])

CompleteDownloadItem_Lock(t) ==
    /\ LockCall(t, "downloadQueueLock", "co_lock", "co_loop")
    /\ UNCHANGED local

CompleteDownloadItem_Loop(t) ==
    /\ Locked(t, "downloadQueueLock")
    /\ LockStep(t, "co_loop",
                IF FindItem(downloadQueue, local[t].id) # 0
                THEN "co_tlock" ELSE "co_unlock",
                mutex)
    /\ downloadQueue' = CompletedQueue(downloadQueue, local[t].id,
                                       local[t].filePath, local[t].finalSize,
                                       now)
    /\ UNCHANGED <<totalDownloaded, sessionStartTime, currentItemID,
                   currentProgress, currentSpeed, local>>

CompleteDownloadItem_TotalLock(t) ==
    /\ LockCall(t, "totalDownloadedLock", "co_tlock", "co_total")
    /\ UNCHANGED local

CompleteDownloadItem_Total(t) ==
    /\ Locked(t, "totalDownloadedLock")
    /\ LockStep(t, "co_total", "co_unlock", WithUnlock("totalDownloadedLock"))
    /\ totalDownloaded' = CompletedTotal(downloadQueue, local[t].id,
                                         local[t].finalSize, totalDownloaded)
    /\ UNCHANGED <<downloadQueue, sessionStartTime, currentItemID,
                   currentProgress, currentSpeed, local>>

CompleteDownloadItem_Unlock(t) ==
    /\ LockStep(t, "co_unlock", "idle", WithUnlock("downloadQueueLock"))
    /\ local' = [local EXCEPT ![t] = LockLocal]
    /\ UNCHANGED storeVars

(* GetDownloadQueue, ResetSessionIfComplete first *)

GetDownloadQueue_Call(t) == Enter(t, "rs_rlock", LockLocal)

ResetSessionIfComplete_RLock(t) ==
    /\ RLockCall(t, "downloadQueueLock", "rs_rlock", "rs_scan")
    /\ UNCHANGED local

ResetSessionIfComplete_Scan(t) ==
    /\ LockStep(t, "rs_scan",
                IF HasActiveOrQueued(downloadQueue) THEN "gq_rlock" ELSE "rs_slock",
                WithRUnlock("downloadQueueLock", t))
    /\ local' = [local EXCEPT ![t].hasActiveOrQueued =
                                     HasActiveOrQueued(downloadQueue)]
    /\ UNCHANGED storeVars

ResetSessionIfComplete_SessionLock(t) ==
    /\ LockCall(t, "sessionStartLock", "rs_slock", "rs_session")
    /\ UNCHANGED local

ResetSessionIfComplete_Session(t) ==
    /\ Locked(t, "sessionStartLock")
    /\ LockStep(t, "rs_session", "rs_tlock", WithUnlock("sessionStartLock"))
    /\ sessionStartTime' = 0
    /\ UNCHANGED <<downloadQueue, totalDownloaded, currentItemID,
                   currentProgress, currentSpeed, local>>

ResetSessionIfComplete_TotalLock(t) ==
    /\ LockCall(t, "totalDownloadedLock", "rs_tlock", "rs_total")
    /\ UNCHANGED local

ResetSessionIfComplete_Total(t) ==
    /\ Locked(t, "totalDownloadedLock")
    /\ LockStep(t, "rs_total", "gq_rlock", WithUnlock("totalDownloadedLock"))
    /\ totalDownloaded' = 0
    /\ UNCHANGED <<downloadQueue, sessionStartTime, currentItemID,
                   currentProgress, currentSpeed, local>>

GetDownloadQueue_RLock(t) ==
    /\ RLockCall(t, "downloadQueueLock", "gq_rlock", "gq_srlock")
    /\ local' = [local EXCEPT ![t].downloading = activeDownloads > 0]

GetDownloadQueue_SpeedRLock(t) ==
    /\ RLockCall(t, "speedLock", "gq_srlock", "gq_speed")
    /\ UNCHANGED local

GetDownloadQueue_Speed(t) ==
    /\ LockStep(t, "gq_speed", "gq_trlock", WithRUnlock("speedLock", t))
    /\ local' = [local EXCEPT ![t].speed = currentSpeed]
    /\ UNCHANGED storeVars

GetDownloadQueue_TotalRLock(t) ==
    /\ RLockCall(t, "totalDownloadedLock", "gq_trlock", "gq_total")
    /\ UNCHANGED local

GetDownloadQueue_Total(t) ==
    /\ LockStep(t, "gq_total", "gq_ssrlock", WithRUnlock("totalDownloadedLock", t))
    /\ local' = [local EXCEPT ![t].total = totalDownloaded]
    /\ UNCHANGED storeVars

GetDownloadQueue_SessionRLock(t) ==
    /\ RLockCall(t, "sessionStartLock", "gq_ssrlock", "gq_session")
    /\ UNCHANGED local

GetDownloadQueue_Session(t) ==
    /\ LockStep(t, "gq_session", "gq_count", WithRUnlock("sessionStartLock", t))
    /\ local' = [local EXCEPT ![t].sessionStart = sessionStartTime]
    /\ UNCHANGED storeVars

\* the counting loop, the copy, the deferred RUnlock and the return; the
\* caller drops the result
GetDownloadQueue_Return(t) ==
    /\ LockStep(t, "gq_count", "idle", WithRUnlock("downloadQueueLock", t))
    /\ local' = [local EXCEPT ![t] = LockLocal]
    /\ UNCHANGED storeVars

(* ClearAllDownloads; SetDownloadProgress and SetDownloadSpeed are its last *)
(* two critical sections                                                    *)

ClearAllDownloads_Call(t) == Enter(t, "ca_qlock", LockLocal)

ClearAllDownloads_QueueLock(t) ==
    /\ LockCall(t, "downloadQueueLock", "ca_qlock", "ca_queue")
    /\ UNCHANGED local

\* one critical section of ClearAllDownloads after its Lock(): the write is
\* in the action that uses this, the Unlock() here
ClearAllDownloads_Section(t, l, from, to) ==
    /\ Locked(t, l)
    /\ LockStep(t, from, to, WithUnlock(l))
    /\ UNCHANGED local

ClearAllDownloads_Queue(t) ==
    /\ ClearAllDownloads_Section(t, "downloadQueueLock", "ca_queue", "ca_tlock")
    /\ downloadQueue' = <<>>
    /\ UNCHANGED <<totalDownloaded, sessionStartTime, currentItemID,
                   currentProgress, currentSpeed>>

ClearAllDownloads_TotalLock(t) ==
    /\ LockCall(t, "totalDownloadedLock", "ca_tlock", "ca_total")
    /\ UNCHANGED local

ClearAllDownloads_Total(t) ==
    /\ ClearAllDownloads_Section(t, "totalDownloadedLock", "ca_total", "ca_slock")
    /\ totalDownloaded' = 0
    /\ UNCHANGED <<downloadQueue, sessionStartTime, currentItemID,
                   currentProgress, currentSpeed>>

ClearAllDownloads_SessionLock(t) ==
    /\ LockCall(t, "sessionStartLock", "ca_slock", "ca_session")
    /\ UNCHANGED local

ClearAllDownloads_Session(t) ==
    /\ ClearAllDownloads_Section(t, "sessionStartLock", "ca_session", "ca_ilock")
    /\ sessionStartTime' = 0
    /\ UNCHANGED <<downloadQueue, totalDownloaded, currentItemID,
                   currentProgress, currentSpeed>>

ClearAllDownloads_ItemLock(t) ==
    /\ LockCall(t, "currentItemLock", "ca_ilock", "ca_item")
    /\ UNCHANGED local

ClearAllDownloads_Item(t) ==
    /\ ClearAllDownloads_Section(t, "currentItemLock", "ca_item", "ca_plock")
    /\ currentItemID' = ""
    /\ UNCHANGED <<downloadQueue, totalDownloaded, sessionStartTime,
                   currentProgress, currentSpeed>>

ClearAllDownloads_ProgressLock(t) ==
    /\ LockCall(t, "currentProgressLock", "ca_plock", "ca_progress")
    /\ UNCHANGED local

ClearAllDownloads_Progress(t) ==
    /\ ClearAllDownloads_Section(t, "currentProgressLock", "ca_progress", "ca_splock")
    /\ currentProgress' = 0
    /\ UNCHANGED <<downloadQueue, totalDownloaded, sessionStartTime,
                   currentItemID, currentSpeed>>

ClearAllDownloads_SpeedLock(t) ==
    /\ LockCall(t, "speedLock", "ca_splock", "ca_speed")
    /\ UNCHANGED local

ClearAllDownloads_Speed(t) ==
    /\ ClearAllDownloads_Section(t, "speedLock", "ca_speed", "idle")
    /\ currentSpeed' = 0
    /\ UNCHANGED <<downloadQueue, totalDownloaded, sessionStartTime,
                   currentItemID, currentProgress>>

(* The threads *)

InitLocks ==
    /\ downloadQueue = <<>>
    /\ totalDownloaded = 0
    /\ sessionStartTime = 0
    /\ currentItemID = ""
    /\ currentProgress = 0
    /\ currentSpeed = 0
    /\ activeDownloads = 0
    /\ rlockHolders = {}
    /\ now = 1
    /\ pc = [t \in LockThreads |-> "idle"]
    /\ local = [t \in LockThreads |-> LockLocal]
    /\ pw = NoWriter
    /\ stream = <<>>
    /\ mutex = NoMutex
    /\ hist = NoHist
    /\ lastCall = Call("", "", FALSE, 0)
    /\ calls = 0

\* a new call
Begun ==
    /\ calls < MaxLockCalls
    /\ calls' = calls + 1
    /\ UNCHANGED <<hist, lastCall>>

\* a worker calls an operation
WorkerCalls(w) ==
    \/ \E id \in LockIds : Begun /\ AddToQueue_Call(w, id)
    \/ \E id \in LockIds : Begun /\ StartDownloadItem_Call(w, id)
    \/ \E id \in LockIds, f \in Paths, n \in Sizes :
          Begun /\ CompleteDownloadItem_Call(w, id, f, n)

\* the next step of the call thread t is in
Continue(t) ==
    \/ AddToQueue_Lock(t)
    \/ AddToQueue_Append(t)
    \/ AddToQueue_SessionLock(t)
    \/ AddToQueue_Session(t)
    \/ AddToQueue_Unlock(t)
    \/ StartDownloadItem_Lock(t)
    \/ StartDownloadItem_Loop(t)
    \/ StartDownloadItem_ItemLock(t)
    \/ StartDownloadItem_Item(t)
    \/ StartDownloadItem_Unlock(t)
    \/ CompleteDownloadItem_Lock(t)
    \/ CompleteDownloadItem_Loop(t)
    \/ CompleteDownloadItem_TotalLock(t)
    \/ CompleteDownloadItem_Total(t)
    \/ CompleteDownloadItem_Unlock(t)
    \/ ResetSessionIfComplete_RLock(t)
    \/ ResetSessionIfComplete_Scan(t)
    \/ ResetSessionIfComplete_SessionLock(t)
    \/ ResetSessionIfComplete_Session(t)
    \/ ResetSessionIfComplete_TotalLock(t)
    \/ ResetSessionIfComplete_Total(t)
    \/ GetDownloadQueue_RLock(t)
    \/ GetDownloadQueue_SpeedRLock(t)
    \/ GetDownloadQueue_Speed(t)
    \/ GetDownloadQueue_TotalRLock(t)
    \/ GetDownloadQueue_Total(t)
    \/ GetDownloadQueue_SessionRLock(t)
    \/ GetDownloadQueue_Session(t)
    \/ GetDownloadQueue_Return(t)
    \/ ClearAllDownloads_QueueLock(t)
    \/ ClearAllDownloads_Queue(t)
    \/ ClearAllDownloads_TotalLock(t)
    \/ ClearAllDownloads_Total(t)
    \/ ClearAllDownloads_SessionLock(t)
    \/ ClearAllDownloads_Session(t)
    \/ ClearAllDownloads_ItemLock(t)
    \/ ClearAllDownloads_Item(t)
    \/ ClearAllDownloads_ProgressLock(t)
    \/ ClearAllDownloads_Progress(t)
    \/ ClearAllDownloads_SpeedLock(t)
    \/ ClearAllDownloads_Speed(t)

\* a step of t inside its call, with its bookkeeping
Continues(t) ==
    /\ Continue(t)
    /\ UNCHANGED <<hist, lastCall, calls>>

NextLocks ==
    \/ \E w \in Workers : WorkerCalls(w)
    \/ Begun /\ GetDownloadQueue_Call(Poller)
    \/ Begun /\ ClearAllDownloads_Call(Clearer)
    \/ \E t \in LockThreads : Continues(t)

SpecLocks == InitLocks /\ [][NextLocks]_vars

\* the scheduler runs every thread that can take a step
SpecLocksFair == SpecLocks /\ \A t \in LockThreads : WF_vars(Continues(t))

---------------------------------------------------------------------------
(* Claims about the locks *)

\* the locks t holds, for writing or for reading
HeldBy(t) ==
    {l \in LockNames : Locked(t, l) \/ t \in mutex[l].readers}

\* the locks t holds or is inside Lock() of
ClaimedBy(t) ==
    {l \in LockNames : mutex[l].writer = t \/ t \in mutex[l].readers}

\* C12, as stated: every thread holds at most one lock.
C12_AtMostOneLockHeld ==
    \A t \in LockThreads : Cardinality(HeldBy(t)) <= 1

\* a step in which t takes a lock takes downloadQueueLock holding nothing,
\* and any other lock holding nothing or downloadQueueLock alone
TakenInOrder ==
    \A t \in LockThreads :
       \A l \in ClaimedBy(t)' \ ClaimedBy(t) :
          IF l = "downloadQueueLock"
          THEN ClaimedBy(t) = {}
          ELSE ClaimedBy(t) \subseteq {"downloadQueueLock"}

\* C12, amended: a thread holds at most two locks; when it holds two, one is
\* downloadQueueLock and it was taken first; a thread that takes
\* downloadQueueLock holds no lock.
C12_QueueLockFirstThenOneOther ==
    /\ [](\A t \in LockThreads :
             /\ Cardinality(ClaimedBy(t)) <= 2
             /\ Cardinality(ClaimedBy(t)) = 2 => "downloadQueueLock" \in ClaimedBy(t))
    /\ [][TakenInOrder]_vars

\* a worker holds downloadQueueLock and totalDownloadedLock while the poller
\* holds nothing and waits to read the queue
C12_Witness ==
    \E w \in Workers :
       /\ HeldBy(w) = {"downloadQueueLock", "totalDownloadedLock"}
       /\ pc[Poller] = "gq_rlock"
       /\ HeldBy(Poller) = {}

\* the positions whose next step is downloadQueueLock.Lock() or .RLock()
AtQueueLock(t) ==
    pc[t] \in {"aq_lock", "st_lock", "co_lock", "rs_rlock", "gq_rlock", "ca_qlock"}

\* C20: a thread about to take downloadQueueLock holds no other lock, and
\* under fair scheduling every call returns.
C20_EveryCallReturns ==
    /\ [](\A t \in LockThreads : AtQueueLock(t) => ClaimedBy(t) = {})
    /\ \A t \in LockThreads : (pc[t] # "idle") ~> (pc[t] = "idle")

\* a worker holds downloadQueueLock and waits for sessionStartLock, which
\* the poller holds for its reset, while the clearer waits for
\* downloadQueueLock
C20_Witness ==
    \E w \in Workers :
       /\ pc[w] = "aq_slock"
       /\ Locked(w, "downloadQueueLock")
       /\ Locked(Poller, "sessionStartLock")
       /\ pc[Clearer] = "ca_qlock"

=============================================================================
